---- MODULE Spec2Model ----
(***************************************************************************)
(* Proof verification service of the ml-service                            *)
(* (services/ml-service/app/models/proof_verification.py and the           *)
(* /proof/verify endpoint of services/ml-service/app/main.py).             *)
(*                                                                         *)
(* Units.  A score the code keeps as a float in [0,1] is an integer number *)
(* of thousandths (0.3 is 300).  A fusion weight is an integer number of   *)
(* hundredths (0.15 is 15).  The fused score is the exact rational         *)
(* num/den in thousandths; the overall_score of a response, which the code *)
(* computes as round(overall * 100, 1), is an integer number of tenths of  *)
(* a percent (0..1000 stands for 0.0 .. 100.0).                            *)
(*                                                                         *)
(* The five analyzers are the objects held by ProofVerificationModel.  The *)
(* repository's analyzers derive their numbers from an md5 of the image    *)
(* bytes as a stand-in for inference; here an image is the record of the   *)
(* features an extractor reports for it, and every analyzer is a function  *)
(* of that record, so that one image always analyses the same way.  The    *)
(* cache key md5(image_url) is the image itself.                           *)
(***************************************************************************)
EXTENDS Integers, Sequences, FiniteSets, TLC

\* ------------------------------------------------------------------ bounds

\* verify calls started in one behaviour
MaxCalls == 2

\* check_duplicate calls in a run
MaxChecks == 3

\* status decisions compared with one another
MaxDecisions == 2

\* ------------------------------------------------------- program constants

QUALITY_GATE == 300          \* quality_result["overall_score"] < 0.3
LOW_QUALITY == 500           \* quality_score < 0.5
W_QUALITY == 15
W_AUTHENTICITY == 25
W_LANDMARK == 30
W_OBJECTS == 15
W_FACE == 15
LANDMARK_FALLBACK == 300     \* scores.append(("landmark", 0.3, 0.3))
OBJECTS_PRIMARY == 700       \* scores.append(("objects", 0.7, 0.15))
LOW_MATCH == 800             \* face_result["match_score"] < 0.8
APPROVE_CLEAN == 800         \* overall_score >= 0.8 and not issues
APPROVE_ONE_ISSUE == 600     \* overall_score >= 0.6 and len(issues) <= 1
REVIEW_FLOOR == 400          \* overall_score >= 0.4
TTL_APPROVED == 3600
TTL_NOT_APPROVED == 300
OBJECT_MIN_CONFIDENCE == 600 \* confidence > 0.6
CATEGORY_VERIFIED_MIN == 700 \* category_matches[expected_category] > 0.7
LOCATION_VERIFIED_MIN == 500 \* d["location_score"] > 0.5
HTTP_SERVICE_UNAVAILABLE == 503 \* HTTPException(status_code=503, ...)
HTTP_INTERNAL_ERROR == 500      \* HTTPException(status_code=500, ...)

\* None of a string argument or field
None == "none"

\* an optional value that is not a string: Nothing is None, Some(x) is x
Nothing == <<>>
Some(x) == <<x>>

\* class ProofType
SELFIE_WITH_ID == "selfie_with_id"
EXPERIENCE_PHOTO == "experience_photo"
RECEIPT == "receipt"
LOCATION_CHECK == "location_check"
VIDEO_PROOF == "video_proof"
ProofType == {SELFIE_WITH_ID, EXPERIENCE_PHOTO, RECEIPT, LOCATION_CHECK, VIDEO_PROOF}

\* class VerificationStatus
APPROVED == "approved"
REJECTED == "rejected"
MANUAL_REVIEW == "manual_review"
PENDING == "pending"

\* proof_type: Literal[...] of ProofVerifyRequest
RequestProofTypes == {SELFIE_WITH_ID, EXPERIENCE_PHOTO, RECEIPT, LOCATION_CHECK}

\* issue texts of verify and _calculate_verification
ISSUE_QUALITY_TOO_LOW == "quality_too_low"       \* "Fotograf kalitesi cok dusuk"
ISSUE_QUALITY_LOW == "quality_low"               \* "Fotograf kalitesi dusuk"
ISSUE_MANIPULATED == "possibly_manipulated"      \* "Fotograf manipule edilmis olabilir"
ISSUE_LOCATION == "location_not_verified"        \* "Konum dogrulanamadi"
ISSUE_FACE_MATCH == "face_match_low"             \* "Yuz esleme skoru dusuk"
ISSUE_NO_FACE == "no_face_detected"              \* "Fotografta yuz tespit edilemedi"

\* ------------------------------------------------------------ arithmetic

\* round(x, n) of Python on the exact quotient num/den: nearest integer, ties
\* to even.
Round(num, den) ==
    LET q == num \div den
        r == num % den
    IN  IF 2 * r < den THEN q
        ELSE IF 2 * r > den THEN q + 1
        ELSE IF q % 2 = 0 THEN q ELSE q + 1

\* integer square root, for the norms of _cosine_similarity
Isqrt(n) == CHOOSE r \in 0..n : r * r <= n /\ (r + 1) * (r + 1) > n

\* round(x, 3) of a signed quotient
RoundSigned(num, den) == IF num < 0 THEN -Round(-num, den) ELSE Round(num, den)

\* --------------------------------------------------------------- analyzers

\* ImageQualityAnalyzer.analyze: the overall score of the image
QualityAnalyze(img) == [overall_score |-> img.q]

\* ImageAuthenticityAnalyzer.analyze
AuthenticityAnalyze(img) ==
    [is_authentic |-> img.authentic, authenticity_score |-> img.auth_score]

\* LandmarkDetector.LANDMARKS (two of the eight entries, half a kilometre
\* apart and sharing the feature "dome"), in dictionary order
LANDMARKS ==
    << [landmark_id |-> "hagia_sophia", radius_km |-> 1, confidence_threshold |-> 800],
       [landmark_id |-> "blue_mosque", radius_km |-> 1, confidence_threshold |-> 800] >>

\* location_score of detect, in thousandths, for the haversine distance (in
\* metres) between the GPS position of the image and the landmark; Nothing
\* when the image has no GPS position:
\* 1.0 - distance / radius_km if distance <= radius_km, else 0.0
LocationScore(distance, radius_km) ==
    IF distance = Nothing THEN 0
    ELSE IF distance[1] <= 1000 * radius_km
         THEN Round(1000 * (1000 * radius_km - distance[1]), 1000 * radius_km)
         ELSE 0

\* one entry of `detected` for registry entry i, from the image's visual and
\* location score for that landmark
LandmarkEntry(img, i) ==
    [landmark_id |-> LANDMARKS[i].landmark_id,
     confidence |-> Round(7 * img.landmarks[i].visual + 3 * img.landmarks[i].location, 10),
     visual_score |-> img.landmarks[i].visual,
     location_score |-> img.landmarks[i].location]

\* combined_score >= landmark["confidence_threshold"]
LandmarkDetected(img, i) ==
    7 * img.landmarks[i].visual + 3 * img.landmarks[i].location
        >= 10 * LANDMARKS[i].confidence_threshold

\* location_verified taken over the whole registry, detected or not
LandmarkDetectAnyLandmark(img) ==
    LET RECURSIVE Entries(_)
        Entries(i) == IF i > Len(LANDMARKS) THEN <<>>
                      ELSE (IF LandmarkDetected(img, i)
                            THEN <<LandmarkEntry(img, i)>> ELSE <<>>) \o Entries(i + 1)
        detected == Entries(1)
    IN  [detected_landmarks |-> detected,
         top_match |-> IF Len(detected) > 0 THEN Some(detected[1]) ELSE Nothing,
         location_verified |->
             \E i \in 1..Len(LANDMARKS) :
                 img.landmarks[i].location > LOCATION_VERIFIED_MIN]

\* detected.sort(key=confidence, reverse=True): a stable insertion of e
RECURSIVE InsertByConfidence(_, _)
InsertByConfidence(e, s) ==
    IF Len(s) = 0 THEN <<e>>
    ELSE IF Head(s).confidence >= e.confidence
         THEN <<Head(s)>> \o InsertByConfidence(e, Tail(s))
         ELSE <<e>> \o s

RECURSIVE SortByConfidence(_)
SortByConfidence(s) ==
    IF Len(s) = 0 THEN <<>>
    ELSE InsertByConfidence(s[Len(s)], SortByConfidence(SubSeq(s, 1, Len(s) - 1)))

RECURSIVE DetectedFrom(_, _)
DetectedFrom(img, i) ==
    IF i > Len(LANDMARKS) THEN <<>>
    ELSE (IF LandmarkDetected(img, i) THEN <<LandmarkEntry(img, i)>> ELSE <<>>)
         \o DetectedFrom(img, i + 1)

\* LandmarkDetector.detect
LandmarkDetect(img) ==
    LET detected == SortByConfidence(DetectedFrom(img, 1))
    IN  [detected_landmarks |-> detected,
         top_match |-> IF Len(detected) > 0 THEN Some(detected[1]) ELSE Nothing,
         location_verified |->
             \E k \in 1..Len(detected) :
                 detected[k].location_score > LOCATION_VERIFIED_MIN]

\* ObjectDetector.EXPERIENCE_OBJECTS (two of the six categories), in order
CATEGORIES == <<"adventure", "food">>

\* category_matches: the categories with a detected object, with their score
CategoryMatches(img) ==
    {i \in 1..Len(CATEGORIES) : img.categories[i] > OBJECT_MIN_CONFIDENCE}

\* max(category_matches, key=category_matches.get): the first best category
PrimaryCategory(img) ==
    LET m == CategoryMatches(img)
    IN  IF m = {} THEN None
        ELSE CATEGORIES[CHOOSE i \in m :
                 \A j \in m : /\ img.categories[j] <= img.categories[i]
                              /\ (img.categories[j] = img.categories[i] => i <= j)]

\* ObjectDetector.detect
ObjectDetect(img, expected_category) ==
    [category_scores |-> [i \in CategoryMatches(img) |-> img.categories[i]],
     primary_category |-> PrimaryCategory(img),
     category_verified |->
         /\ expected_category # None
         /\ \E i \in CategoryMatches(img) :
                /\ CATEGORIES[i] = expected_category
                /\ img.categories[i] > CATEGORY_VERIFIED_MIN]

\* FaceAnalyzer._cosine_similarity, in thousandths
CosineSimilarity(a, b) ==
    LET dot == a[1] * b[1] + a[2] * b[2]
        norm_a == Isqrt(a[1] * a[1] + a[2] * a[2])
        norm_b == Isqrt(b[1] * b[1] + b[2] * b[2])
    IN  IF norm_a = 0 \/ norm_b = 0 THEN 0
        ELSE RoundSigned(1000 * dot, norm_a * norm_b)

\* FaceAnalyzer.analyze; an embedding is a pair of integers, Nothing when
\* the result has no "embedding" key
FaceAnalyze(img, reference_embedding) ==
    IF ~img.face
    THEN [face_detected |-> FALSE, quality_score |-> 0,
          match_score |-> Nothing, liveness_score |-> Nothing,
          embedding |-> Nothing]
    ELSE LET match_score ==
                 IF reference_embedding # Nothing
                 THEN CosineSimilarity(img.embedding, reference_embedding)
                 ELSE 0
         IN  [face_detected |-> TRUE,
              quality_score |-> img.face_quality,
              liveness_score |-> Some(img.liveness),
              \* round(match_score, 3) if match_score else None
              match_score |-> IF reference_embedding # Nothing /\ match_score # 0
                              THEN Some(match_score) ELSE Nothing,
              embedding |-> img.embedding]

\* ------------------------------------------------- _calculate_verification

\* An entry of `scores`: (name, score, weight).  score2 is twice the score in
\* thousandths, so that (face_score + liveness_score) / 2 stays an integer.
ScoreEntry(name, score2, weight) == [name |-> name, score2 |-> score2, weight |-> weight]

\* results.get("quality", {}).get("overall_score", 0)
QualityScoreOf(results) ==
    IF "quality" \in DOMAIN results THEN results["quality"].overall_score ELSE 0

\* auth_result.get("is_authentic", True)
IsAuthenticOf(results) ==
    IF "authenticity" \in DOMAIN results THEN results["authenticity"].is_authentic ELSE TRUE

\* quality part: the score is always appended, the issue below 0.5
QualityPart(results) ==
    [scores |-> <<ScoreEntry("quality", 2 * QualityScoreOf(results), W_QUALITY)>>,
     issues |-> IF QualityScoreOf(results) < LOW_QUALITY
                THEN <<ISSUE_QUALITY_LOW>> ELSE <<>>]

\* auth_result.get("authenticity_score", 0.5)
AuthenticityPart(results) ==
    [scores |-> <<ScoreEntry("authenticity",
                     IF "authenticity" \in DOMAIN results
                     THEN 2 * results["authenticity"].authenticity_score ELSE 1000,
                     W_AUTHENTICITY)>>,
     issues |-> <<>>]

\* landmark part: only when results has a landmark result
LandmarkPart(results) ==
    IF "landmarks" \notin DOMAIN results THEN [scores |-> <<>>, issues |-> <<>>]
    ELSE LET r == results["landmarks"]
         IN  IF r.location_verified
             THEN [scores |-> <<ScoreEntry("landmark", 2000, W_LANDMARK)>>,
                   issues |-> <<>>]
             ELSE IF r.top_match # Nothing
             THEN [scores |-> <<ScoreEntry("landmark", 2 * r.top_match[1].confidence,
                                           W_LANDMARK)>>,
                   issues |-> <<>>]
             ELSE [scores |-> <<ScoreEntry("landmark", 2 * LANDMARK_FALLBACK, W_LANDMARK)>>,
                   issues |-> <<ISSUE_LOCATION>>]

\* the object part without the primary-category branch
ObjectsPartVerifiedOnly(results) ==
    IF "objects" \in DOMAIN results /\ results["objects"].category_verified
    THEN [scores |-> <<ScoreEntry("objects", 2000, W_OBJECTS)>>, issues |-> <<>>]
    ELSE [scores |-> <<>>, issues |-> <<>>]

\* object part: 1.0 when the category is verified, 0.7 when some category
\* was seen, nothing otherwise
ObjectsPart(results) ==
    IF "objects" \notin DOMAIN results THEN [scores |-> <<>>, issues |-> <<>>]
    ELSE LET r == results["objects"]
         IN  IF r.category_verified
             THEN [scores |-> <<ScoreEntry("objects", 2000, W_OBJECTS)>>, issues |-> <<>>]
             ELSE IF r.primary_category # None
             THEN [scores |-> <<ScoreEntry("objects", 2 * OBJECTS_PRIMARY, W_OBJECTS)>>,
                   issues |-> <<>>]
             ELSE [scores |-> <<>>, issues |-> <<>>]

\* the face part for every proof type whose face was analysed
FacePartWheneverAnalysed(results, proof_type) ==
    IF "face" \notin DOMAIN results THEN [scores |-> <<>>, issues |-> <<>>]
    ELSE IF results["face"].face_detected
    THEN [scores |-> <<ScoreEntry("face", results["face"].quality_score
                                      + results["face"].liveness_score[1], W_FACE)>>,
          issues |-> <<>>]
    ELSE [scores |-> <<ScoreEntry("face", 0, W_FACE)>>, issues |-> <<ISSUE_NO_FACE>>]

\* a face required of every proof type whose face is analysed
FacePartFaceRequired(results, proof_type) ==
    IF proof_type \notin {SELFIE_WITH_ID, EXPERIENCE_PHOTO}
    THEN [scores |-> <<>>, issues |-> <<>>]
    ELSE IF "face" \in DOMAIN results /\ results["face"].face_detected
    THEN [scores |-> <<ScoreEntry("face", results["face"].quality_score
                                      + results["face"].liveness_score[1], W_FACE)>>,
          issues |-> IF results["face"].match_score # Nothing
                        /\ results["face"].match_score[1] < LOW_MATCH
                     THEN <<ISSUE_FACE_MATCH>> ELSE <<>>]
    ELSE [scores |-> <<ScoreEntry("face", 0, W_FACE)>>, issues |-> <<ISSUE_NO_FACE>>]

\* face part: only for proof_type selfie_with_id
FacePart(results, proof_type) ==
    IF proof_type # SELFIE_WITH_ID THEN [scores |-> <<>>, issues |-> <<>>]
    ELSE IF "face" \in DOMAIN results /\ results["face"].face_detected
    THEN LET r == results["face"]
             \* face_result.get("liveness_score", 0.5): the key is present
             liveness == r.liveness_score[1]
         IN  [scores |-> <<ScoreEntry("face", r.quality_score + liveness, W_FACE)>>,
              issues |-> IF r.match_score # Nothing /\ r.match_score[1] < LOW_MATCH
                         THEN <<ISSUE_FACE_MATCH>> ELSE <<>>]
    ELSE [scores |-> <<ScoreEntry("face", 0, W_FACE)>>, issues |-> <<ISSUE_NO_FACE>>]

\* `scores` at the weighted average (the authentic path)
CalcScores(results, proof_type) ==
    QualityPart(results).scores \o AuthenticityPart(results).scores
        \o LandmarkPart(results).scores \o ObjectsPart(results).scores
        \o FacePart(results, proof_type).scores

\* `issues` at the weighted average (the authentic path)
CalcIssues(results, proof_type) ==
    QualityPart(results).issues \o AuthenticityPart(results).issues
        \o LandmarkPart(results).issues \o ObjectsPart(results).issues
        \o FacePart(results, proof_type).issues

RECURSIVE TotalWeight(_)
TotalWeight(scores) ==
    IF Len(scores) = 0 THEN 0 ELSE Head(scores).weight + TotalWeight(Tail(scores))

RECURSIVE WeightedSum(_)
WeightedSum(scores) ==
    IF Len(scores) = 0 THEN 0
    ELSE Head(scores).score2 * Head(scores).weight + WeightedSum(Tail(scores))

\* the sum divided by the weights of the two gates only
OverallScoreGateWeights(scores) ==
    [num |-> WeightedSum(scores), den |-> 2 * (W_QUALITY + W_AUTHENTICITY)]

\* overall_score as the exact quotient num/den in thousandths; 0 when
\* total_weight is 0
OverallScore(scores) ==
    IF TotalWeight(scores) > 0
    THEN [num |-> WeightedSum(scores), den |-> 2 * TotalWeight(scores)]
    ELSE [num |-> 0, den |-> 1]

\* the second approval without its limit on the issues
DetermineStatusAnyIssues(overall, n_issues) ==
    IF overall.num >= APPROVE_CLEAN * overall.den /\ n_issues = 0 THEN APPROVED
    ELSE IF overall.num >= APPROVE_ONE_ISSUE * overall.den THEN APPROVED
    ELSE IF overall.num >= REVIEW_FLOOR * overall.den THEN MANUAL_REVIEW
    ELSE REJECTED

\* the last branch leaving the status at its initial value
DetermineStatusPending(overall, n_issues) ==
    IF overall.num >= APPROVE_CLEAN * overall.den /\ n_issues = 0 THEN APPROVED
    ELSE IF overall.num >= APPROVE_ONE_ISSUE * overall.den /\ n_issues <= 1 THEN APPROVED
    ELSE IF overall.num >= REVIEW_FLOOR * overall.den THEN MANUAL_REVIEW
    ELSE PENDING

\* the second branch taken for exactly one issue
DetermineStatusExactlyOneIssue(overall, n_issues) ==
    IF overall.num >= APPROVE_CLEAN * overall.den /\ n_issues = 0 THEN APPROVED
    ELSE IF overall.num >= APPROVE_ONE_ISSUE * overall.den /\ n_issues = 1 THEN APPROVED
    ELSE IF overall.num >= REVIEW_FLOOR * overall.den THEN MANUAL_REVIEW
    ELSE REJECTED

\* "Determine status"
DetermineStatus(overall, n_issues) ==
    IF overall.num >= APPROVE_CLEAN * overall.den /\ n_issues = 0 THEN APPROVED
    ELSE IF overall.num >= APPROVE_ONE_ISSUE * overall.den /\ n_issues <= 1 THEN APPROVED
    ELSE IF overall.num >= REVIEW_FLOOR * overall.den THEN MANUAL_REVIEW
    ELSE REJECTED

\* approved set in the manual review branch as well
CalculateVerificationApprovingReview(results, proof_type) ==
    IF ~IsAuthenticOf(results)
    THEN [approved |-> FALSE, status |-> MANUAL_REVIEW, score |-> 0,
          issues |-> QualityPart(results).issues \o <<ISSUE_MANIPULATED>>,
          suggestions |-> <<"upload_original">>]
    ELSE LET scores == CalcScores(results, proof_type)
             issues == CalcIssues(results, proof_type)
             overall == OverallScore(scores)
             status == DetermineStatus(overall, Len(issues))
         IN  [approved |-> status \in {APPROVED, MANUAL_REVIEW},
              status |-> status,
              score |-> Round(overall.num, overall.den),
              issues |-> issues,
              suggestions |-> IF status = MANUAL_REVIEW
                              THEN <<"manual_review_notice">> ELSE <<>>]

\* ProofVerificationModel._calculate_verification
CalculateVerification(results, proof_type) ==
    IF ~IsAuthenticOf(results)
    THEN [approved |-> FALSE, status |-> MANUAL_REVIEW, score |-> 0,
          issues |-> QualityPart(results).issues \o <<ISSUE_MANIPULATED>>,
          suggestions |-> <<"upload_original">>]
    ELSE LET scores == CalcScores(results, proof_type)
             issues == CalcIssues(results, proof_type)
             overall == OverallScore(scores)
             status == DetermineStatus(overall, Len(issues))
         IN  [approved |-> status = APPROVED,
              status |-> status,
              \* round(overall_score * 100, 1)
              score |-> Round(overall.num, overall.den),
              issues |-> issues,
              suggestions |-> IF status = MANUAL_REVIEW
                              THEN <<"manual_review_notice">> ELSE <<>>]

\* ------------------------------------------------------------ _build_response

\* results.get("landmarks", {}).get("top_match", {}).get("confidence", 0):
\* top_match is present with value None when nothing was detected, and
\* None.get raises AttributeError
BuildResponseRaises(results) ==
    /\ "landmarks" \in DOMAIN results
    /\ results["landmarks"].top_match = Nothing

\* ProofVerificationModel._build_response (verified_at left out)
BuildResponse(approved, status, results, overall_score, issues, suggestions) ==
    [approved |-> approved,
     status |-> status,
     overall_score |-> overall_score,
     breakdown |->
         [quality_score |-> QualityScoreOf(results),
          authenticity_score |->
              IF "authenticity" \in DOMAIN results
              THEN results["authenticity"].authenticity_score ELSE 0,
          landmark_confidence |->
              IF "landmarks" \in DOMAIN results
              THEN Some(results["landmarks"].top_match[1].confidence) ELSE Nothing,
          face_quality |->
              IF "face" \in DOMAIN results
              THEN Some(results["face"].quality_score) ELSE Nothing],
     details |-> results,
     issues |-> issues,
     suggestions |-> suggestions]

\* ------------------------------------------------------------------ inputs

\* What an image gives for entry i of LANDMARKS: the visual score
\* (_calculate_visual_similarity), the distance of its GPS position to the
\* landmark in metres (Nothing without GPS), and the location score.
LandmarkFeatures(i, visual, distance) ==
    [visual |-> visual, distance |-> distance,
     location |-> LocationScore(distance, LANDMARKS[i].radius_km)]

\* nothing seen and no GPS; the first landmark seen from 600 m; both seen,
\* from 600 m and 200 m; a third of the features seen from the centre of the
\* first landmark, 456 m from the second; nothing seen from 50 km away
LmNone == << LandmarkFeatures(1, 0, Nothing), LandmarkFeatures(2, 0, Nothing) >>
LmTop == << LandmarkFeatures(1, 1000, Some(600)), LandmarkFeatures(2, 333, Some(1050)) >>
LmVerified == << LandmarkFeatures(1, 1000, Some(600)), LandmarkFeatures(2, 1000, Some(200)) >>
LmAtCentroid == << LandmarkFeatures(1, 333, Some(0)), LandmarkFeatures(2, 333, Some(456)) >>
LmFar == << LandmarkFeatures(1, 0, Some(50000)), LandmarkFeatures(2, 0, Some(50000)) >>

\* per-category scores of an image against CATEGORIES
CatsNone == <<0, 0>>
CatsWeak == <<650, 0>>
CatsAdventure == <<900, 650>>

NoFace == [face |-> FALSE, face_quality |-> 0, liveness |-> 0, embedding |-> <<0, 0>>]
FaceA == [face |-> TRUE, face_quality |-> 701, liveness |-> 800, embedding |-> <<1, 0>>]
FaceB == [face |-> TRUE, face_quality |-> 1000, liveness |-> 1000, embedding |-> <<0, 1>>]
FaceC == [face |-> TRUE, face_quality |-> 850, liveness |-> 900, embedding |-> <<-1, 0>>]

Image(q, authentic, auth_score, landmarks, categories, f) ==
    [q |-> q, authentic |-> authentic, auth_score |-> auth_score,
     landmarks |-> landmarks, categories |-> categories,
     face |-> f.face, face_quality |-> f.face_quality, liveness |-> f.liveness,
     embedding |-> f.embedding]

\* An analyzer is an attribute of the model and stands for whatever extractor
\* is plugged in: its result ranges over the type of the result.  (The md5
\* stand-ins of the repository never report a quality below 0.3 nor
\* is_authentic = False, so neither gate would ever be taken with them.)
AuthResults == { <<FALSE, 600>>, <<TRUE, 350>>, <<TRUE, 800>>, <<TRUE, 1000>> }

\* the images of the service-level specification
Images ==
    { Image(200, TRUE, 1000, LmVerified, CatsAdventure, FaceB),
      Image(900, FALSE, 600, LmNone, CatsAdventure, FaceA),
      Image(900, TRUE, 900, LmNone, CatsNone, NoFace),
      Image(450, TRUE, 800, LmVerified, CatsAdventure, FaceA),
      Image(900, TRUE, 1000, LmTop, CatsWeak, FaceC),
      Image(300, TRUE, 350, LmTop, CatsNone, NoFace) }

\* the images of the single-call specification
AllImages ==
    { Image(q, a[1], a[2], lm, c, f) :
        q \in {200, 300, 500, 900}, a \in AuthResults,
        lm \in {LmNone, LmTop, LmVerified, LmAtCentroid, LmFar},
        c \in {CatsNone, CatsWeak, CatsAdventure},
        f \in {NoFace, FaceA, FaceB} }

Users == {"alice", "bob"}
\* the five proof types and one value outside the enumeration
ProofTypeInputs == ProofType \cup {"passport"}
ExpectedCategories == {None, "adventure"}
AllExpectedCategories == {None, "adventure", "food"}
ReferenceFaceIds == {None, "alice"}

\* ------------------------------------------------------------------- state

VARIABLES
    cache,                \* redis proof_verify:<md5(image_url)> -> [value, ttl]
    embeddings,           \* redis face_embedding:<user_id> -> embedding
    pc,                   \* where the verify call in progress stands
    req,                  \* the arguments of the call
    results,              \* the `results` dictionary of verify
    reference_embedding,  \* the local of verify
    verification,         \* what _calculate_verification returned
    response,             \* the response built or read from the cache
    outcome,              \* how the call ended
    invoked,              \* the analyzers and store operations of the call, in order
    calls,                \* verify calls started
    fault,                \* the awaited operation that raised or never responded
    proof_hashes,         \* redis set proof_hashes
    checks,               \* the check_duplicate calls, by call number
    completed,            \* the check_duplicate calls that have returned
    decided               \* the status decisions taken, with their inputs

vars == << cache, embeddings, pc, req, results, reference_embedding,
           verification, response, outcome, invoked, calls,
           fault, proof_hashes, checks, completed, decided >>

\* the state of DuplicateProofDetector
detector_vars == << proof_hashes, checks, completed >>

\* the state of ProofVerificationModel.verify
verify_vars == << cache, embeddings, pc, req, results, reference_embedding,
                 verification, response, outcome, invoked, calls, fault >>

EmptyMap == [k \in {} |-> 0]

Put(f, k, v) == [x \in DOMAIN f \cup {k} |-> IF x = k THEN v ELSE f[x]]

Remove(f, k) == [x \in DOMAIN f \ {k} |-> f[x]]

Init ==
    /\ cache = EmptyMap
    /\ embeddings = EmptyMap
    /\ pc = "idle"
    /\ req = <<>>
    /\ results = EmptyMap
    /\ reference_embedding = Nothing
    /\ verification = <<>>
    /\ response = <<>>
    /\ outcome = "none"
    /\ invoked = <<>>
    /\ calls = 0
    /\ fault = "none"
    /\ proof_hashes = {}
    /\ checks = <<>>
    /\ completed = {}
    /\ decided = <<>>

\* --------------------------------------------------------------- verify

\* proof_type in [EXPERIENCE_PHOTO, LOCATION_CHECK]
RunsLandmark(proof_type) == proof_type \in {EXPERIENCE_PHOTO, LOCATION_CHECK}

\* the face analysis for selfies only
RunsFaceSelfieOnly(proof_type) == proof_type = SELFIE_WITH_ID

\* proof_type in [SELFIE_WITH_ID, EXPERIENCE_PHOTO]
RunsFace(proof_type) == proof_type \in {SELFIE_WITH_ID, EXPERIENCE_PHOTO}

\* the gate with a lower threshold
QualityTooPoorLower(quality_result) == quality_result.overall_score < 200

\* quality_result["overall_score"] < 0.3
QualityTooPoor(quality_result) == quality_result.overall_score < QUALITY_GATE

\* face_result.get("face_detected") and face_result.get("embedding")
StoresEmbedding(face_result) ==
    face_result.face_detected /\ face_result.embedding # Nothing

\* the landmark detection left out
AfterAuthenticitySkipping(proof_type) == "objects"

\* the step after the authenticity analysis
AfterAuthenticity(proof_type) ==
    IF RunsLandmark(proof_type) THEN "landmarks" ELSE "objects"

\* the face analysis entered without reading the reference
AfterObjectsWithoutReference(r) ==
    IF RunsFace(r.proof_type) THEN "face" ELSE "calculate"

\* the step after the object detection
AfterObjects(r) ==
    IF RunsFace(r.proof_type)
    THEN (IF r.reference_face_id # None THEN "face_ref" ELSE "face")
    ELSE "calculate"

\* a call begins: the locals are fresh
Begin(r) ==
    /\ pc \in {"idle", "done"}
    /\ calls < MaxCalls
    /\ calls' = calls + 1
    /\ req' = r
    /\ results' = EmptyMap
    /\ reference_embedding' = Nothing
    /\ verification' = <<>>
    /\ response' = <<>>
    /\ invoked' = <<>>
    /\ fault' = "none"
    /\ UNCHANGED << cache, embeddings >>

Requests(images, categories, users) ==
    [image : images, proof_type : ProofTypeInputs, user_id : users,
     expected_category : categories, reference_face_id : ReferenceFaceIds]

\* ProofVerificationModel.verify called with its arguments as given
VerifyCall(requests) ==
    \E r \in requests :
        /\ Begin(r)
        /\ pc' = "cache_get"
        /\ outcome' = "none"

\* POST /proof/verify: ProofVerifyRequest validates proof_type, then
\* verify_proof calls model.verify without a reference_face_id
VerifyProof(requests) ==
    \E r \in requests :
        /\ r.reference_face_id = None
        /\ Begin(r)
        /\ IF r.proof_type \in RequestProofTypes
           THEN pc' = "cache_get" /\ outcome' = "none"
           ELSE pc' = "done" /\ outcome' = "validation_error"

\* the cache read with its result ignored
CacheGetRecomputing ==
    /\ pc = "cache_get"
    /\ invoked' = Append(invoked, "cache_get")
    /\ pc' = "quality"
    /\ UNCHANGED << cache, embeddings, req, results, reference_embedding,
                    verification, response, outcome, calls >>

\* cached = await redis.get(cache_key); a hit returns the stored response
CacheGet ==
    /\ pc = "cache_get"
    /\ invoked' = Append(invoked, "cache_get")
    /\ IF req.image \in DOMAIN cache
       THEN /\ response' = cache[req.image].value
            /\ outcome' = "result"
            /\ pc' = "done"
       ELSE /\ pc' = "quality"
            /\ UNCHANGED << response, outcome >>
    /\ UNCHANGED << cache, embeddings, req, results, reference_embedding,
                    verification, calls >>

\* 1. Quality Analysis, and the return when the quality is too poor
Quality ==
    /\ pc = "quality"
    /\ LET quality_result == QualityAnalyze(req.image)
           r == Put(results, "quality", quality_result)
       IN  /\ results' = r
           /\ invoked' = Append(invoked, "quality")
           /\ IF QualityTooPoor(quality_result)
              THEN /\ response' = BuildResponse(FALSE, REJECTED, r, 0,
                                                <<ISSUE_QUALITY_TOO_LOW>>, <<>>)
                   /\ outcome' = "result"
                   /\ pc' = "done"
              ELSE /\ pc' = "authenticity"
                   /\ UNCHANGED << response, outcome >>
    /\ UNCHANGED << cache, embeddings, req, reference_embedding, verification, calls >>

\* 2. Authenticity Analysis
Authenticity ==
    /\ pc = "authenticity"
    /\ results' = Put(results, "authenticity", AuthenticityAnalyze(req.image))
    /\ invoked' = Append(invoked, "authenticity")
    /\ pc' = AfterAuthenticity(req.proof_type)
    /\ UNCHANGED << cache, embeddings, req, reference_embedding, verification,
                    response, outcome, calls >>

\* 3. Landmark Detection
Landmarks ==
    /\ pc = "landmarks"
    /\ results' = Put(results, "landmarks", LandmarkDetect(req.image))
    /\ invoked' = Append(invoked, "landmarks")
    /\ pc' = "objects"
    /\ UNCHANGED << cache, embeddings, req, reference_embedding, verification,
                    response, outcome, calls >>

\* 4. Object Detection
Objects ==
    /\ pc = "objects"
    /\ results' = Put(results, "objects", ObjectDetect(req.image, req.expected_category))
    /\ invoked' = Append(invoked, "objects")
    /\ pc' = AfterObjects(req)
    /\ UNCHANGED << cache, embeddings, req, reference_embedding, verification,
                    response, outcome, calls >>

\* _get_reference_face(reference_face_id)
GetReferenceFace ==
    /\ pc = "face_ref"
    /\ reference_embedding' =
           IF req.reference_face_id \in DOMAIN embeddings
           THEN embeddings[req.reference_face_id] ELSE Nothing
    /\ invoked' = Append(invoked, "face_ref")
    /\ pc' = "face"
    /\ UNCHANGED << cache, embeddings, req, results, verification, response,
                    outcome, calls >>

\* 5. Face Analysis
Face ==
    /\ pc = "face"
    /\ LET face_result == FaceAnalyze(req.image, reference_embedding)
       IN  /\ results' = Put(results, "face", face_result)
           /\ pc' = IF StoresEmbedding(face_result) THEN "face_store" ELSE "calculate"
    /\ invoked' = Append(invoked, "face")
    /\ UNCHANGED << cache, embeddings, req, reference_embedding, verification,
                    response, outcome, calls >>

\* _store_face_embedding(user_id, face_result["embedding"])
StoreFaceEmbedding ==
    /\ pc = "face_store"
    /\ embeddings' = Put(embeddings, req.user_id, results["face"].embedding)
    /\ invoked' = Append(invoked, "face_store")
    /\ pc' = "calculate"
    /\ UNCHANGED << cache, req, results, reference_embedding, verification,
                    response, outcome, calls >>

\* _calculate_verification and _build_response; the latter may raise
Calculate ==
    /\ pc = "calculate"
    /\ LET v == CalculateVerification(results, req.proof_type)
       IN  /\ verification' = v
           /\ IF BuildResponseRaises(results)
              THEN /\ outcome' = "exception"
                   /\ pc' = "done"
                   /\ UNCHANGED response
              ELSE /\ response' = BuildResponse(v.approved, v.status, results,
                                                v.score, v.issues, v.suggestions)
                   /\ pc' = "cache_set"
                   /\ UNCHANGED outcome
    /\ UNCHANGED << cache, embeddings, req, results, reference_embedding,
                    invoked, calls >>

\* cache_ttl = 3600 if verification["approved"] else 300
CacheTtl(v) == IF v.approved THEN TTL_APPROVED ELSE TTL_NOT_APPROVED

\* redis.setex(cache_key, cache_ttl, json.dumps(response)); return response
CacheSet ==
    /\ pc = "cache_set"
    /\ cache' = Put(cache, req.image, [value |-> response, ttl |-> CacheTtl(verification)])
    /\ invoked' = Append(invoked, "cache_set")
    /\ outcome' = "result"
    /\ pc' = "done"
    /\ UNCHANGED << embeddings, req, results, reference_embedding, verification,
                    response, calls >>

\* a cache entry reaches its time to live
Expire ==
    /\ \E k \in DOMAIN cache : cache' = Remove(cache, k)
    /\ UNCHANGED << embeddings, pc, req, results, reference_embedding,
                    verification, response, outcome, invoked, calls >>

Steps ==
    \/ CacheGet
    \/ Quality
    \/ Authenticity
    \/ Landmarks
    \/ Objects
    \/ GetReferenceFace
    \/ Face
    \/ StoreFaceEmbedding
    \/ Calculate
    \/ CacheSet

\* the service: calls one after the other on the shared cache and store
ServiceRequests == Requests(Images, ExpectedCategories, Users)

Next ==
    \/ VerifyCall(ServiceRequests) /\ UNCHANGED << detector_vars, decided >>
    \/ VerifyProof(ServiceRequests) /\ UNCHANGED << detector_vars, decided >>
    \/ Steps /\ UNCHANGED << fault, detector_vars, decided >>
    \/ Expire /\ UNCHANGED << fault, detector_vars, decided >>

Spec == Init /\ [][Next]_vars

\* one call, over every image: the cache is empty (its entries live an hour
\* at most) and the store may hold the embedding of an earlier selfie of
\* alice (embeddings live thirty days)
FirstRequests == Requests(AllImages, AllExpectedCategories, {"bob"})

InitOne ==
    /\ cache = EmptyMap
    /\ embeddings \in {EmptyMap, Put(EmptyMap, "alice", FaceA.embedding)}
    /\ pc = "idle"
    /\ req = <<>>
    /\ results = EmptyMap
    /\ reference_embedding = Nothing
    /\ verification = <<>>
    /\ response = <<>>
    /\ outcome = "none"
    /\ invoked = <<>>
    /\ calls = 0
    /\ fault = "none"
    /\ proof_hashes = {}
    /\ checks = <<>>
    /\ completed = {}
    /\ decided = <<>>

NextOne ==
    \/ calls = 0 /\ VerifyCall(FirstRequests) /\ UNCHANGED << detector_vars, decided >>
    \/ calls = 0 /\ VerifyProof(FirstRequests) /\ UNCHANGED << detector_vars, decided >>
    \/ Steps /\ UNCHANGED << fault, detector_vars, decided >>

SpecOne == InitOne /\ [][NextOne]_vars

\* ---------------------------------------------------- DuplicateProofDetector

\* hashlib.md5(image_data).hexdigest()[:16]: sixteen hexadecimal digits
PHASH_LENGTH == 16

\* The images submitted to the detector and the digits of their md5 digests:
\* image_x1 agrees with image_x on fifteen digits of sixteen, image_y on
\* fourteen.
ImageData == {"image_x", "image_x1", "image_y"}

Md5HexDigest(image_data) ==
    [i \in 1..PHASH_LENGTH |->
        CASE image_data = "image_x" -> 0
          [] image_data = "image_x1" -> (IF i = PHASH_LENGTH THEN 1 ELSE 0)
          [] OTHER -> (IF i >= PHASH_LENGTH - 1 THEN 2 ELSE 0)]

MomentIds == {"moment_1", "moment_2"}

\* DuplicateProofDetector._calculate_phash
CalculatePhash(image_data) == Md5HexDigest(image_data)

\* the fraction of differing digits in place of the matching ones
HammingDistance(hash1, hash2) ==
    IF Len(hash1) # Len(hash2) THEN [num |-> 0, den |-> 1]
    ELSE [num |-> Cardinality({i \in 1..Len(hash1) : hash1[i] # hash2[i]}),
          den |-> Len(hash1)]

\* DuplicateProofDetector._hamming_similarity: matches / len(hash1), as the
\* fraction num / den
HammingSimilarity(hash1, hash2) ==
    IF Len(hash1) # Len(hash2) THEN [num |-> 0, den |-> 1]
    ELSE [num |-> Cardinality({i \in 1..Len(hash1) : hash1[i] = hash2[i]}),
          den |-> Len(hash1)]

\* the comparison without the test on the user
DuplicatesOfAnyUser(existing_proofs, phash, user_id) ==
    { [original_user_id |-> existing.user_id,
       original_moment_id |-> existing.moment_id,
       similarity |-> Round(1000 * HammingSimilarity(phash, existing.phash).num,
                            HammingSimilarity(phash, existing.phash).den),
       uploaded_at |-> existing.uploaded_at] :
        existing \in
            { x \in existing_proofs :
                LET similarity == HammingSimilarity(phash, x.phash)
                IN  10 * similarity.num > 9 * similarity.den } }

\* the comparison with the test on the user inverted
DuplicatesOfSameUser(existing_proofs, phash, user_id) ==
    { [original_user_id |-> existing.user_id,
       original_moment_id |-> existing.moment_id,
       similarity |-> Round(1000 * HammingSimilarity(phash, existing.phash).num,
                            HammingSimilarity(phash, existing.phash).den),
       uploaded_at |-> existing.uploaded_at] :
        existing \in
            { x \in existing_proofs :
                LET similarity == HammingSimilarity(phash, x.phash)
                IN  /\ 10 * similarity.num > 9 * similarity.den
                    /\ x.user_id = user_id } }

\* The loop of check_duplicate over existing_proofs: an entry is reported
\* when similarity > 0.9 and existing_data["user_id"] != user_id, with
\* round(similarity, 3).  smembers returns the members in no particular
\* order: `duplicates` is kept as the set of its entries.
Duplicates(existing_proofs, phash, user_id) ==
    { [original_user_id |-> existing.user_id,
       original_moment_id |-> existing.moment_id,
       similarity |-> Round(1000 * HammingSimilarity(phash, existing.phash).num,
                            HammingSimilarity(phash, existing.phash).den),
       uploaded_at |-> existing.uploaded_at] :
        existing \in
            { x \in existing_proofs :
                LET similarity == HammingSimilarity(phash, x.phash)
                IN  /\ 10 * similarity.num > 9 * similarity.den
                    /\ x.user_id # user_id } }

\* check_duplicate(image_data, user_id, moment_id) is called: phash is
\* computed.  `before` keeps the calls that had returned by then.
CheckDuplicate(image_data, user_id, moment_id) ==
    /\ Len(checks) < MaxChecks
    /\ checks' = Append(checks,
           [pc |-> "smembers", image_data |-> image_data, user_id |-> user_id,
            moment_id |-> moment_id, phash |-> CalculatePhash(image_data),
            existing_proofs |-> {}, duplicates |-> {}, uploaded_at |-> 0,
            result |-> Nothing, before |-> completed])
    /\ UNCHANGED << proof_hashes, completed >>

\* existing_proofs = await redis.smembers("proof_hashes"), and the loop
Smembers(i) ==
    /\ checks[i].pc = "smembers"
    /\ checks' = [checks EXCEPT
           ![i].pc = "sadd",
           ![i].existing_proofs = proof_hashes,
           ![i].duplicates = Duplicates(proof_hashes, checks[i].phash, checks[i].user_id)]
    /\ UNCHANGED << proof_hashes, completed >>

\* the hash stored only when no duplicate was found
SaddUnlessDuplicate(i) ==
    /\ checks[i].pc = "sadd"
    /\ proof_hashes' =
           IF Cardinality(checks[i].duplicates) > 0 THEN proof_hashes
           ELSE proof_hashes \cup
                    { [phash |-> checks[i].phash, user_id |-> checks[i].user_id,
                       moment_id |-> checks[i].moment_id,
                       uploaded_at |-> Cardinality(proof_hashes) + 1] }
    /\ LET is_duplicate == Cardinality(checks[i].duplicates) > 0
       IN  checks' = [checks EXCEPT
               ![i].pc = "done",
               ![i].uploaded_at = Cardinality(proof_hashes) + 1,
               ![i].result = Some([is_duplicate |-> is_duplicate,
                                   duplicates |-> checks[i].duplicates,
                                   phash |-> checks[i].phash,
                                   risk_level |-> IF is_duplicate THEN "critical"
                                                  ELSE "none"])]
    /\ completed' = completed \cup
           { [image_data |-> checks[i].image_data, user_id |-> checks[i].user_id,
              moment_id |-> checks[i].moment_id] }

\* await redis.sadd("proof_hashes", ...) and the return; uploaded_at, the
\* time of the write, is the rank of the write
Sadd(i) ==
    /\ checks[i].pc = "sadd"
    /\ proof_hashes' = proof_hashes \cup
           { [phash |-> checks[i].phash, user_id |-> checks[i].user_id,
              moment_id |-> checks[i].moment_id,
              uploaded_at |-> Cardinality(proof_hashes) + 1] }
    /\ LET is_duplicate == Cardinality(checks[i].duplicates) > 0
       IN  checks' = [checks EXCEPT
               ![i].pc = "done",
               ![i].uploaded_at = Cardinality(proof_hashes) + 1,
               ![i].result = Some([is_duplicate |-> is_duplicate,
                                   duplicates |-> checks[i].duplicates,
                                   phash |-> checks[i].phash,
                                   risk_level |-> IF is_duplicate THEN "critical"
                                                  ELSE "none"])]
    /\ completed' = completed \cup
           { [image_data |-> checks[i].image_data, user_id |-> checks[i].user_id,
              moment_id |-> checks[i].moment_id] }

\* the detector: calls of check_duplicate interleaved at their awaits
NextDetector ==
    \/ /\ \E image_data \in ImageData, user_id \in Users, moment_id \in MomentIds :
              CheckDuplicate(image_data, user_id, moment_id)
       /\ UNCHANGED << verify_vars, decided >>
    \/ (\E i \in 1..Len(checks) : Smembers(i)) /\ UNCHANGED << verify_vars, decided >>
    \/ (\E i \in 1..Len(checks) : Sadd(i)) /\ UNCHANGED << verify_vars, decided >>

SpecDetector == Init /\ [][NextDetector]_vars

\* ------------------------------------------------------ the status decision

\* fused scores around the thresholds of the decision, in thousandths
FusedScores ==
    { [num |-> n, den |-> 1] : n \in {0, 399, 400, 599, 600, 799, 800, 1000} }

\* len(issues) at the decision: the fusion appends three issues at most
IssueCounts == 0..3

\* the "Determine status" section of _calculate_verification applied to a
\* fused score and a number of issues
Decide(overall, n_issues) ==
    /\ Len(decided) < MaxDecisions
    /\ decided' = Append(decided,
           [overall |-> overall, n_issues |-> n_issues,
            status |-> DetermineStatus(overall, n_issues)])
    /\ UNCHANGED << verify_vars, detector_vars >>

NextDecision == \E overall \in FusedScores, n_issues \in IssueCounts : Decide(overall, n_issues)

SpecDecision == Init /\ [][NextDecision]_vars

\* ------------------------------------------------------ failing operations

\* the operations verify awaits, by the step that awaits them
Awaited ==
    {"cache_get", "quality", "authenticity", "landmarks", "objects",
     "face_ref", "face", "face_store", "cache_set"}

\* the five analyzers
Analyzers == {"quality", "authenticity", "landmarks", "objects", "face"}

\* An awaited operation raises.  verify has no try statement: the exception
\* leaves verify at once, whatever the operation, and nothing more of the
\* call runs.
Raises ==
    /\ pc \in Awaited
    /\ invoked' = Append(invoked, pc)
    /\ fault' = pc
    /\ outcome' = "exception"
    /\ pc' = "done"
    /\ UNCHANGED << cache, embeddings, req, results, reference_embedding,
                    verification, response, calls >>

\* An analyzer never responds.  verify awaits it without a timeout
\* (no asyncio.wait_for): the call stays at that await.
NeverResponds ==
    /\ pc \in Analyzers
    /\ invoked' = Append(invoked, pc)
    /\ fault' = pc
    /\ pc' = "blocked"
    /\ UNCHANGED << cache, embeddings, req, results, reference_embedding,
                    verification, response, outcome, calls >>

\* The handler of verify_proof, `except Exception`, for an exception raised
\* inside its try block: HTTPException is an Exception, so the handler takes
\* the HTTPException the block raises itself as it takes any other, and
\* raises HTTPException(500).
ExceptException(raised_status) == HTTP_INTERNAL_ERROR

\* how a call through the endpoint ends, by the status of the response
HttpOutcome(status) ==
    IF status = HTTP_SERVICE_UNAVAILABLE THEN "http_503" ELSE "http_500"

\* POST /proof/verify when models.get("proof_verification") is None: the
\* endpoint raises HTTPException(503) inside its try block
VerifyProofNotLoaded(requests) ==
    \E r \in requests :
        /\ r.reference_face_id = None
        /\ r.proof_type \in RequestProofTypes
        /\ pc \in {"idle", "done"}
        /\ calls < MaxCalls
        /\ calls' = calls + 1
        /\ req' = r
        /\ results' = EmptyMap
        /\ reference_embedding' = Nothing
        /\ verification' = <<>>
        /\ response' = <<>>
        /\ invoked' = <<>>
        /\ fault' = "model_not_loaded"
        /\ outcome' = HttpOutcome(ExceptException(HTTP_SERVICE_UNAVAILABLE))
        /\ pc' = "done"
        /\ UNCHANGED << cache, embeddings >>

\* one call whose awaited operations may fail
FaultRequests == Requests(Images, ExpectedCategories, {"bob"})

NextFaults ==
    \/ calls = 0 /\ VerifyCall(FaultRequests) /\ UNCHANGED << detector_vars, decided >>
    \/ calls = 0 /\ VerifyProofNotLoaded(FaultRequests)
           /\ UNCHANGED << detector_vars, decided >>
    \/ Steps /\ UNCHANGED << fault, detector_vars, decided >>
    \/ Raises /\ UNCHANGED << detector_vars, decided >>
    \/ NeverResponds /\ UNCHANGED << detector_vars, decided >>

SpecFaults == InitOne /\ [][NextFaults]_vars

\* The event loop resumes a coroutine whose awaited operation has completed
\* or raised: a call that can take a step takes one.
SpecFaultsFair == SpecFaults /\ WF_vars(NextFaults)

\* ------------------------------------------------------------------ claims

\* the operation `name` took place in the call in progress
Ran(name) == \E i \in 1..Len(invoked) : invoked[i] = name

\* the place of the operation `name` in the call
Pos(name) == CHOOSE i \in 1..Len(invoked) : invoked[i] = name

\* the call in progress has run _calculate_verification
Calculated == pc \in {"cache_set", "done"} /\ "authenticity" \in DOMAIN results

\* the call in progress passed both gates and has run _calculate_verification
Fused == Calculated /\ results["authenticity"].is_authentic

\* C1: whenever the quality analyzer reports an overall score below 0.3, the
\* call has returned REJECTED with approved false and the single issue "image
\* quality too low", and no analyzer other than the quality analyzer was
\* invoked in that call.
C1_QualityGateRejects ==
    ("quality" \in DOMAIN results /\ results["quality"].overall_score < 300) =>
        /\ pc = "done"
        /\ outcome = "result"
        /\ response.status = REJECTED
        /\ response.approved = FALSE
        /\ response.issues = <<ISSUE_QUALITY_TOO_LOW>>
        /\ \A a \in {"authenticity", "landmarks", "objects", "face"} : ~Ran(a)

C1_Witness ==
    /\ pc = "done"
    /\ "quality" \in DOMAIN results
    /\ results["quality"].overall_score < 300
    /\ outcome = "result"
    /\ response.status = REJECTED
    /\ invoked = <<"cache_get", "quality">>

\* C2 (as claimed): every call in which the authenticity analyzer ran and
\* reported is_authentic = false returns a result whose status is
\* MANUAL_REVIEW and whose approved is false, whatever the proof type and the
\* other analyzers' results.
C2_InauthenticReturnsManualReview ==
    (pc = "done" /\ "authenticity" \in DOMAIN results
        /\ ~results["authenticity"].is_authentic) =>
        /\ outcome = "result"
        /\ response.status = MANUAL_REVIEW
        /\ response.approved = FALSE

C4_Decision(s, n) ==
    IF (s.num >= 800 * s.den /\ n = 0) \/ (s.num >= 600 * s.den /\ n <= 1)
    THEN "approved"
    ELSE IF s.num >= 400 * s.den THEN "manual_review" ELSE "rejected"

C5_Components == {"quality", "authenticity", "landmark", "objects", "face"}

C5_AnalyzerOf(c) == IF c = "landmark" THEN "landmarks" ELSE c

\* the names in a `scores` list
ScoreNames(scores) == {scores[i].name : i \in 1..Len(scores)}

\* C5 (as claimed): in every call that passes both gates, the components that
\* enter the weighted average are exactly those whose analyzer executed.
C5_EveryExecutedComponentContributes ==
    Fused =>
        ScoreNames(CalcScores(results, req.proof_type))
            = {c \in C5_Components : Ran(C5_AnalyzerOf(c))}

\* whether component c enters the weighted average, by the amended claim
C5_Contributes(c) ==
    CASE c = "quality" -> TRUE
      [] c = "authenticity" -> TRUE
      [] c = "landmark" -> Ran("landmarks")
      [] c = "objects" -> /\ Ran("objects")
                          /\ \/ results["objects"].category_verified
                             \/ results["objects"].primary_category # None
      [] c = "face" -> req.proof_type = "selfie_with_id"

C5_Weight(c) ==
    CASE c = "quality" -> 15
      [] c = "authenticity" -> 25
      [] c = "landmark" -> 30
      [] c = "objects" -> 15
      [] c = "face" -> 15

\* twice the score of component c in thousandths, by the amended claim
C5_Score2(c) ==
    CASE c = "quality" -> 2 * results["quality"].overall_score
      [] c = "authenticity" -> 2 * results["authenticity"].authenticity_score
      [] c = "landmark" ->
            IF results["landmarks"].location_verified THEN 2000
            ELSE IF Len(results["landmarks"].detected_landmarks) > 0
                 THEN 2 * results["landmarks"].detected_landmarks[1].confidence
                 ELSE 600
      [] c = "objects" -> IF results["objects"].category_verified THEN 2000 ELSE 1400
      [] c = "face" ->
            IF results["face"].face_detected
            THEN results["face"].quality_score + results["face"].liveness_score[1]
            ELSE 0

C5_Term(c) == IF C5_Contributes(c) THEN C5_Weight(c) * C5_Score2(c) ELSE 0

C5_Share(c) == IF C5_Contributes(c) THEN C5_Weight(c) ELSE 0

\* C5 (amended): in every call that passes both gates, the fused score is the
\* weighted average (weights quality 0.15, authenticity 0.25, landmark 0.30,
\* object 0.15, face 0.15) over these components: quality and authenticity
\* always; landmark when the landmark analyzer ran (1.0 when the location is
\* verified, else the top match's confidence, else 0.3); object when the
\* object analyzer reported a verified category (1.0) or any primary category
\* (0.7); face only for proof type selfie_with_id (the mean of quality and
\* liveness, or 0 without a face).  Every contributing component's analyzer
\* ran; an analyzer that ran need not contribute.
C5_FusedScoreOverContributing ==
    Fused =>
        LET num == C5_Term("quality") + C5_Term("authenticity") + C5_Term("landmark")
                       + C5_Term("objects") + C5_Term("face")
            den == 2 * (C5_Share("quality") + C5_Share("authenticity")
                       + C5_Share("landmark") + C5_Share("objects") + C5_Share("face"))
            s == OverallScore(CalcScores(results, req.proof_type))
        IN  /\ s.num * den = num * s.den
            /\ verification.score = Round(num, den)
            /\ \A c \in C5_Components : C5_Contributes(c) => Ran(C5_AnalyzerOf(c))
            /\ ScoreNames(CalcScores(results, req.proof_type))
                   = {c \in C5_Components : C5_Contributes(c)}

C5_Witness ==
    /\ Fused
    /\ outcome = "result"
    /\ req.proof_type = "experience_photo"
    /\ Ran("face") /\ results["face"].face_detected
    /\ Ran("landmarks") /\ Ran("objects")
    /\ ScoreNames(CalcScores(results, req.proof_type))
           = {"quality", "authenticity", "landmark"}

\* C6: every result verify returns, from the quality gate, from the fusion
\* or from the cache, has an overall_score within [0, 100] (0..1000 tenths of
\* a percent), and so has every response held in the cache.
C6_OverallScoreInRange ==
    /\ outcome = "result" => response.overall_score \in 0..1000
    /\ \A k \in DOMAIN cache : cache[k].value.overall_score \in 0..1000

C6_Witness ==
    /\ pc = "done"
    /\ outcome = "result"
    /\ invoked = <<"cache_get">>
    /\ response.overall_score > 800
    /\ response.overall_score <= 1000

C8_LandmarkAndFaceByProofType ==
    /\ Ran("landmarks") => req.proof_type \in {"experience_photo", "location_check"}
    /\ Ran("face") => req.proof_type \in {"selfie_with_id", "experience_photo"}
    /\ Calculated =>
          /\ req.proof_type \in {"experience_photo", "location_check"} => Ran("landmarks")
          /\ req.proof_type \in {"selfie_with_id", "experience_photo"} => Ran("face")

C8_Witness ==
    /\ Calculated
    /\ pc = "done"
    /\ req.proof_type = "location_check"
    /\ Ran("landmarks")
    /\ ~Ran("face")

\* C9 (as claimed): the object analyzer is invoked only when the proof type
\* is experience_photo or location_check, and no object score enters the
\* fusion for another proof type.
C9_ObjectsOnlyForExperienceOrLocation ==
    /\ Ran("objects") => req.proof_type \in {"experience_photo", "location_check"}
    /\ (Fused /\ req.proof_type \notin {"experience_photo", "location_check"})
          => "objects" \notin ScoreNames(CalcScores(results, req.proof_type))

\* C9 (amended): the object analyzer is invoked in every call that passes the
\* quality gate, whatever the proof type, right after the authenticity and
\* landmark analyzers; and in a call that passes both gates an object score
\* enters the fusion exactly when the analyzer reported a verified category
\* or any primary category.
C9_ObjectsForEveryProofType ==
    /\ Calculated => Ran("objects")
    /\ pc \in {"face_ref", "face", "face_store", "calculate"} => Ran("objects")
    /\ Fused =>
          ("objects" \in ScoreNames(CalcScores(results, req.proof_type))
              <=> \/ results["objects"].category_verified
                  \/ results["objects"].primary_category # None)

C9_Witness ==
    /\ Fused
    /\ pc = "done"
    /\ outcome = "result"
    /\ req.proof_type = "receipt"
    /\ Ran("objects")
    /\ ~results["objects"].category_verified
    /\ "objects" \in ScoreNames(CalcScores(results, req.proof_type))

\* C10 (as claimed): a request whose proof type is none of the five
\* enumerated values ends in a validation error, with no analyzer invoked and
\* no result, whether computed or read from the cache.
C10_UnknownProofTypeIsRejected ==
    (pc # "idle" /\ req.proof_type \notin
         {"selfie_with_id", "experience_photo", "receipt", "location_check", "video_proof"})
        => /\ \A a \in {"quality", "authenticity", "landmarks", "objects", "face"} : ~Ran(a)
           /\ outcome # "result"
           /\ pc = "done" => outcome = "validation_error"

\* the call in progress ended, and the operation `op` is the one that raised
RaisedIn(op) == pc = "done" /\ fault = op

\* C11: if the landmark, object or face analyzer raises during a verify call,
\* the call still returns a structured result, and every analyzer selected
\* for the proof type that had not yet run is run all the same.
C11_AnalyzerFailureIsTolerated ==
    (\E op \in {"landmarks", "objects", "face"} : RaisedIn(op)) =>
        /\ outcome = "result"
        /\ Ran("objects")
        /\ RunsFace(req.proof_type) => Ran("face")

\* C12: if the quality analyzer raises the call returns REJECTED, and if the
\* authenticity analyzer raises the call returns MANUAL_REVIEW, instead of an
\* exception.
C12_GateFailureIsTheGateOutcome ==
    /\ RaisedIn("quality") => outcome = "result" /\ response.status = REJECTED
    /\ RaisedIn("authenticity") =>
           outcome = "result" /\ response.status = MANUAL_REVIEW

\* C13: if the cache read fails at the start of verify, the call goes on as
\* on a cache miss: the pipeline runs and the call returns a result.
C13_CacheReadFailureRecomputes ==
    RaisedIn("cache_get") => outcome = "result" /\ Ran("quality")

\* C14: if the write of the result cache or of the face embedding fails, the
\* call still returns the verdict the pipeline computed.
C14_WriteFailureKeepsTheVerdict ==
    (RaisedIn("cache_set") \/ RaisedIn("face_store")) =>
        /\ outcome = "result"
        /\ response.status = verification.status

\* C15: every verify call comes to an end, even when an analyzer never
\* responds: the pipeline does not stay blocked on one analyzer.
C15_EveryCallReturns == (pc = "cache_get") ~> (pc = "done")

\* C16: every result verify computes on a cache miss is in the cache when the
\* call returns, under the key of the image, with a time to live of 3600
\* seconds when approved and of 300 seconds when not; the results of the
\* gates included.
C16_EveryComputedResultIsCached ==
    (pc = "done" /\ outcome = "result" /\ Ran("quality")) =>
        /\ req.image \in DOMAIN cache
        /\ cache[req.image].value = response
        /\ cache[req.image].ttl =
               IF response.approved THEN TTL_APPROVED ELSE TTL_NOT_APPROVED

\* the `results` of a call that misses the cache and passes the quality gate
PipelineResults(r, ref) ==
    LET q == Put(EmptyMap, "quality", QualityAnalyze(r.image))
        a == Put(q, "authenticity", AuthenticityAnalyze(r.image))
        l == IF RunsLandmark(r.proof_type)
             THEN Put(a, "landmarks", LandmarkDetect(r.image)) ELSE a
        o == Put(l, "objects", ObjectDetect(r.image, r.expected_category))
    IN  IF RunsFace(r.proof_type)
        THEN Put(o, "face", FaceAnalyze(r.image, ref)) ELSE o

\* what verify computes for the request r on an empty cache, the reference
\* embedding read from the store being ref: the status and the score of the
\* response, or the exception of _build_response
FreshVerdict(r, ref) ==
    IF QualityTooPoor(QualityAnalyze(r.image))
    THEN <<REJECTED, 0>>
    ELSE LET res == PipelineResults(r, ref)
         IN  IF BuildResponseRaises(res)
             THEN <<"exception">>
             ELSE LET v == CalculateVerification(res, r.proof_type)
                  IN  <<v.status, v.score>>

\* the reference embeddings a call may read from the store
ReferenceEmbeddings(r) ==
    IF r.reference_face_id = None
    THEN {Nothing}
    ELSE {Nothing} \cup {img.embedding : img \in {i \in Images : i.face}}

\* C17: the verdict a verify call returns (status and overall score) is the
\* one computed for its inputs on an empty cache, whatever calls came before.
C17_VerdictIsTheFreshOne ==
    (pc = "done" /\ outcome = "result") =>
        \E ref \in ReferenceEmbeddings(req) :
            <<response.status, response.overall_score>> = FreshVerdict(req, ref)

\* C18: the embedding store is written only in the verification of a
\* selfie_with_id in which a face was detected; for every other proof type
\* the call leaves the store as it was.
C18_StoreWrittenOnlyForSelfieWithId ==
    Ran("face_store") =>
        req.proof_type = SELFIE_WITH_ID /\ results["face"].face_detected

\* the check_duplicate calls that have returned
Returned == {i \in 1..Len(checks) : checks[i].pc = "done"}

\* the digits of two hashes agree on more than nine tenths of their places
C20_Similar(hash1, hash2) ==
    /\ Len(hash1) = Len(hash2)
    /\ 10 * Cardinality({k \in 1..Len(hash1) : hash1[k] = hash2[k]}) > 9 * Len(hash1)

C20_NoFalsePositive ==
    \A i \in Returned :
        LET c == checks[i]
            result == c.result[1]
        IN  /\ result.is_duplicate =>
                   \E x \in c.existing_proofs :
                       x.user_id # c.user_id /\ C20_Similar(c.phash, x.phash)
            /\ \A d \in result.duplicates : d.original_user_id # c.user_id
            /\ c.existing_proofs = {} => ~result.is_duplicate

\* alice has submitted image_x a second time, her first submission in the
\* index, and is not flagged; and a call that read an empty index returned
C20_Witness ==
    /\ \E i \in Returned :
           /\ checks[i].user_id = "alice"
           /\ \E x \in checks[i].existing_proofs :
                  x.user_id = "alice" /\ x.phash = checks[i].phash
           /\ ~checks[i].result[1].is_duplicate
    /\ \E i \in Returned : checks[i].existing_proofs = {}

\* the record check_duplicate call i adds to the index
HashRecord(i) ==
    [phash |-> checks[i].phash, user_id |-> checks[i].user_id,
     moment_id |-> checks[i].moment_id, uploaded_at |-> checks[i].uploaded_at]

\* C21: no step removes an entry from the index; a step that adds to it is
\* the write of one call that has read the index before, and adds that
\* call's record alone; and after every step the record (hash, user, moment,
\* time) of every returned call is in the index, whether or not the call
\* found a duplicate.
C21_IndexOnlyGrowsAfterRead ==
    [][/\ proof_hashes \subseteq proof_hashes'
       /\ proof_hashes' # proof_hashes =>
              \E i \in 1..Len(checks) :
                  /\ checks[i].pc = "sadd"
                  /\ checks'[i].pc = "done"
                  /\ checks[i].existing_proofs \subseteq proof_hashes
                  /\ proof_hashes' \ proof_hashes =
                         { [phash |-> checks'[i].phash, user_id |-> checks'[i].user_id,
                            moment_id |-> checks'[i].moment_id,
                            uploaded_at |-> checks'[i].uploaded_at] }
       /\ \A i \in 1..Len(checks') :
              checks'[i].pc = "done" =>
                  [phash |-> checks'[i].phash, user_id |-> checks'[i].user_id,
                   moment_id |-> checks'[i].moment_id,
                   uploaded_at |-> checks'[i].uploaded_at] \in proof_hashes']_vars

\* a call that found a duplicate has returned, and its record is in the index
C21_Witness ==
    \E i \in Returned :
        /\ checks[i].result[1].is_duplicate
        /\ HashRecord(i) \in proof_hashes
        /\ Cardinality(proof_hashes) = 2

\* C22: of two returned calls of different users on the same image, the one
\* that read the index when the record of the other was in it is flagged and
\* reports the other; so both return is_duplicate false only when each read
\* the index before the write of the other.
C22_MissedOnlyWhenBothReadFirst ==
    \A i \in Returned : \A j \in Returned :
        (/\ i # j
         /\ checks[i].image_data = checks[j].image_data
         /\ checks[i].user_id # checks[j].user_id) =>
            /\ HashRecord(j) \in checks[i].existing_proofs =>
                   /\ checks[i].result[1].is_duplicate
                   /\ \E d \in checks[i].result[1].duplicates :
                          /\ d.original_user_id = checks[j].user_id
                          /\ d.original_moment_id = checks[j].moment_id
                          /\ d.uploaded_at = checks[j].uploaded_at
            /\ (~checks[i].result[1].is_duplicate /\ ~checks[j].result[1].is_duplicate) =>
                   /\ HashRecord(j) \notin checks[i].existing_proofs
                   /\ HashRecord(i) \notin checks[j].existing_proofs

\* alice and bob have submitted image_x at the same time and neither call
\* is flagged
C22_Witness ==
    \E i \in Returned : \E j \in Returned :
        /\ checks[i].user_id = "alice"
        /\ checks[j].user_id = "bob"
        /\ checks[i].image_data = "image_x"
        /\ checks[j].image_data = "image_x"
        /\ ~checks[i].result[1].is_duplicate
        /\ ~checks[j].result[1].is_duplicate
        /\ checks[i].existing_proofs = {}
        /\ checks[j].existing_proofs = {}

\* C23: in every result of the landmark detector, location_verified is true
\* exactly when some landmark of detected_landmarks has a location score
\* above 0.5, that is when some landmark of the registry whose combined score
\* reaches its own threshold has a location score above 0.5.
C23_LocationVerifiedIffDetectedNearby ==
    "landmarks" \in DOMAIN results =>
        LET r == results["landmarks"]
            f == req.image.landmarks
        IN  /\ r.location_verified <=>
                   \E k \in 1..Len(r.detected_landmarks) :
                       r.detected_landmarks[k].location_score > 500
            /\ r.location_verified <=>
                   \E i \in 1..Len(LANDMARKS) :
                       /\ 7 * f[i].visual + 3 * f[i].location
                              >= 10 * LANDMARKS[i].confidence_threshold
                       /\ f[i].location > 500
            /\ \A k \in 1..Len(r.detected_landmarks) :
                   \E i \in 1..Len(LANDMARKS) :
                       /\ LANDMARKS[i].landmark_id = r.detected_landmarks[k].landmark_id
                       /\ 7 * f[i].visual + 3 * f[i].location
                              >= 10 * LANDMARKS[i].confidence_threshold

\* two landmarks are detected, the first with a location score above 0.5 and
\* the second with one below
C23_Witness ==
    /\ "landmarks" \in DOMAIN results
    /\ results["landmarks"].location_verified
    /\ Len(results["landmarks"].detected_landmarks) = 2
    /\ results["landmarks"].detected_landmarks[1].location_score > 500
    /\ results["landmarks"].detected_landmarks[2].location_score <= 500

\* C24: when the GPS position of the image is the centre of a landmark the
\* location is verified; and when the GPS position is outside the radius of
\* every landmark and no visual feature matches, location_verified is false
\* and the verdict returned carries the issue that the location was not
\* verified.
C24_LocationFollowsGps ==
    "landmarks" \in DOMAIN results =>
        LET f == req.image.landmarks
        IN  /\ (\E i \in 1..Len(LANDMARKS) : f[i].distance = Some(0)) =>
                   results["landmarks"].location_verified
            /\ (/\ pc = "done"
                /\ \A i \in 1..Len(LANDMARKS) :
                       /\ f[i].distance # Nothing
                       /\ f[i].distance[1] > 1000 * LANDMARKS[i].radius_km
                       /\ f[i].visual = 0) =>
                   /\ ~results["landmarks"].location_verified
                   /\ outcome = "result"
                   /\ \E k \in 1..Len(response.issues) :
                          response.issues[k] = ISSUE_LOCATION

\* the face analyzer ran in the call in progress and detected no face
NoFaceDetected == "face" \in DOMAIN results /\ ~results["face"].face_detected

\* the issue is among the issues of the verdict
HasIssue(issue) ==
    \E k \in 1..Len(verification.issues) : verification.issues[k] = issue

\* the fused score of the call in progress without a face component
C25_ScoreWithoutFace ==
    LET scores == QualityPart(results).scores \o AuthenticityPart(results).scores
                      \o LandmarkPart(results).scores \o ObjectsPart(results).scores
        overall == OverallScore(scores)
    IN  Round(overall.num, overall.den)

C26_CacheHitReturnsStoredResult ==
    [][(pc = "cache_get" /\ pc' # "cache_get" /\ req.image \in DOMAIN cache) =>
          /\ pc' = "done"
          /\ outcome' = "result"
          /\ response' = cache[req.image].value
          /\ invoked' = <<"cache_get">>
          /\ results' = EmptyMap
          /\ cache' = cache
          /\ embeddings' = embeddings]_vars

\* a selfie_with_id of alice has been answered from the cache with a result
\* computed without a face analysis, that is for another proof type
C26_Witness ==
    /\ pc = "done"
    /\ outcome = "result"
    /\ invoked = <<"cache_get">>
    /\ req.proof_type = SELFIE_WITH_ID
    /\ req.user_id = "alice"
    /\ "face" \notin DOMAIN response.details
    /\ "objects" \in DOMAIN response.details

\* C27: in every result verify returns, and in every result in the cache,
\* approved is true exactly when the status is approved.
C27_ApprovedIffStatusApproved ==
    /\ (pc = "done" /\ outcome = "result") =>
           (response.approved <=> response.status = APPROVED)
    /\ \A k \in DOMAIN cache :
           cache[k].value.approved <=> cache[k].value.status = APPROVED

\* results of the three kinds have been returned: here an approved one,
\* computed by the fusion
C27_Witness ==
    /\ pc = "done"
    /\ outcome = "result"
    /\ Ran("cache_set")
    /\ response.approved
    /\ response.status = APPROVED

\* the statuses in order: rejected < manual_review < approved
C28_Rank(status) ==
    CASE status = REJECTED -> 0
      [] status = MANUAL_REVIEW -> 1
      [] status = APPROVED -> 2

\* C28: of two decisions with the same number of issues the one with the
\* higher fused score has no worse a status, and of two decisions with the
\* same fused score the one with more issues has no better a status.
C28_DecisionIsMonotone ==
    \A a \in 1..Len(decided) : \A b \in 1..Len(decided) :
        /\ (/\ decided[a].n_issues = decided[b].n_issues
            /\ decided[a].overall.num * decided[b].overall.den
                   <= decided[b].overall.num * decided[a].overall.den) =>
               C28_Rank(decided[a].status) <= C28_Rank(decided[b].status)
        /\ (/\ decided[a].overall = decided[b].overall
            /\ decided[a].n_issues <= decided[b].n_issues) =>
               C28_Rank(decided[a].status) >= C28_Rank(decided[b].status)

\* the same score of 0.8 decided approved without an issue and manual
\* review with two
C28_Witness ==
    /\ Len(decided) = 2
    /\ decided[1].overall = decided[2].overall
    /\ decided[1].overall.num = 800
    /\ decided[1].n_issues = 0
    /\ decided[2].n_issues = 2
    /\ decided[1].status = APPROVED
    /\ decided[2].status = MANUAL_REVIEW

\* C29: a call of the endpoint while the proof_verification model is missing
\* from the registry is answered with status 503, not with the 500 of an
\* error raised during the verification.
C29_MissingModelIs503 ==
    (pc = "done" /\ fault = "model_not_loaded") => outcome = "http_503"

\* the entry of the embedding store under face_id, Nothing when there is none
StoredEmbedding(face_id) ==
    IF face_id \in DOMAIN embeddings THEN embeddings[face_id] ELSE Nothing

\* C30: within a verify call the reference embedding is read before the face
\* analysis and the call's own embedding is written after it; while the face
\* is analysed the reference is the entry the store holds under
\* reference_face_id, none of it written by this call, and the match score is
\* computed against that reference (there is none without a reference), also
\* when reference_face_id is the caller's user id; once the call has written
\* its embedding the store holds it under the caller's user id, where the
\* calls that follow read it.
C30_ReferenceReadBeforeOwnWrite ==
    /\ (Ran("face_ref") /\ Ran("face")) => Pos("face_ref") < Pos("face")
    /\ Ran("face_store") => (Ran("face") /\ Pos("face") < Pos("face_store"))
    /\ pc = "face" =>
           /\ ~Ran("face_store")
           /\ reference_embedding =
                  IF req.reference_face_id = None THEN Nothing
                  ELSE StoredEmbedding(req.reference_face_id)
    /\ (Ran("face") /\ results["face"].face_detected) =>
           results["face"].match_score =
               IF reference_embedding = Nothing
                  \/ CosineSimilarity(req.image.embedding, reference_embedding) = 0
               THEN Nothing
               ELSE Some(CosineSimilarity(req.image.embedding, reference_embedding))
    /\ (Ran("face_store") /\ pc \in {"calculate", "cache_set", "done"}) =>
           StoredEmbedding(req.user_id) = req.image.embedding

\* alice passes her own user id as reference: the match score of her second
\* selfie is computed against the embedding of her first, and the store
\* then holds the embedding of the second
C30_Witness ==
    /\ calls = 2
    /\ pc = "done"
    /\ outcome = "result"
    /\ req.user_id = "alice"
    /\ req.reference_face_id = "alice"
    /\ Ran("face_ref")
    /\ Ran("face_store")
    /\ reference_embedding # Nothing
    /\ reference_embedding # req.image.embedding
    /\ results["face"].match_score # Nothing
    /\ StoredEmbedding("alice") = req.image.embedding

====
